---- MODULE Spec2Model ----
(***************************************************************************)
(* Model of src/misc.rs of neovim-gtk: split_at_comma, escape_filename and *)
(* decode_uri.                                                             *)
(*                                                                         *)
(* A Rust `char` is modelled by its Unicode scalar value (a natural        *)
(* number), a `String`/`&str` by the sequence of its chars, and a byte     *)
(* slice by a sequence of numbers in 0..255.  The conversions between the  *)
(* two (str::as_bytes, decode_utf8) are modelled by the UTF-8 encoding.    *)
(***************************************************************************)
EXTENDS Integers, Sequences, FiniteSets, TLC

VARIABLES
    windows,   \* cfg!(target_os = "windows") of the build
    fn,        \* the function that is called
    arg,       \* its argument (source / filename / uri)
    fields,    \* the caller's field list when arg was built by joining one
    pc,        \* "call" -> ("loop" ->) "done"
    pos,       \* split_at_comma: index of the next char of source.chars()
    escaped,   \* split_at_comma: local `escaped`
    item,      \* split_at_comma: local `item`
    items,     \* split_at_comma: local `items`
    ret        \* the value returned (or the panic raised) by the call

vars == <<windows, fn, arg, fields, pc, pos, escaped, item, items, ret>>

----------------------------------------------------------------------------
(* Characters that the source names. *)
Comma     == 44
Backslash == 92
Slash     == 47
Colon     == 58
Percent   == 37
Dot       == 46
Underscore == 95
Hyphen    == 45

(* Bounds of the model. *)
MaxSourceLen == 5
MaxFields    == 3
MaxFieldLen  == 1
MaxNameLen   == 3
MaxTokens    == 3

\* "a" and "b" of the tests
ChA == 97
ChB == 98

RECURSIVE SeqsUpTo(_, _)
SeqsUpTo(S, n) ==
    IF n = 0 THEN {<<>>}
    ELSE LET shorter == SeqsUpTo(S, n - 1)
         IN  shorter \cup {Append(s, c) : s \in shorter, c \in S}

RECURSIVE Concat(_)
Concat(ss) == IF ss = <<>> THEN <<>> ELSE Head(ss) \o Concat(Tail(ss))

----------------------------------------------------------------------------
(* split_at_comma *)

\* str::replace("\\,", ","): every non-overlapping match of the two chars
\* backslash, comma, found left to right, is replaced by one comma.
RECURSIVE StrReplaceFrom(_, _)
StrReplaceFrom(s, i) ==
    IF i > Len(s) THEN <<>>
    ELSE IF i < Len(s) /\ s[i] = Backslash /\ s[i + 1] = Comma
         THEN <<Comma>> \o StrReplaceFrom(s, i + 2)
         ELSE <<s[i]>> \o StrReplaceFrom(s, i + 1)

\* the mutated unescape leaves the backslash-comma pairs as they are
KeepEscapes(s) == s

\* lines 20 and 33: item.replace("\\,", ",")
UnescapeItem(s) == StrReplaceFrom(s, 1)

\* the mutated condition ignores the escape flag
AnyCommaTerminates(ch, esc) == ch = Comma

\* line 19: ch == ',' && !escaped
IsTerminator(ch, esc) == ch = Comma /\ ~esc

\* the mutated flag counts the parity of a run of backslashes
EscapedByParity(ch, esc) == ch = Backslash /\ ~esc

\* line 29: escaped = ch == '\\'
NextEscaped(ch, esc) == ch = Backslash

\* the mutated tail test pushes the last item even when it is empty
AlwaysPushTail(it) == TRUE

\* line 32: !item.is_empty()
PushTail(it) == it # <<>>

\* lines 13-16
SplitEnter ==
    /\ fn = "split_at_comma" /\ pc = "call"
    /\ pc' = "loop"
    /\ pos' = 1
    /\ escaped' = FALSE
    /\ item' = <<>>
    /\ items' = <<>>
    /\ UNCHANGED <<windows, fn, arg, fields, ret>>

\* lines 18-30, one iteration that ends a field
SplitTerminate ==
    /\ fn = "split_at_comma" /\ pc = "loop" /\ pos <= Len(arg)
    /\ IsTerminator(arg[pos], escaped)
    /\ items' = Append(items, UnescapeItem(item))
    /\ item' = <<>>
    /\ escaped' = NextEscaped(arg[pos], escaped)
    /\ pos' = pos + 1
    /\ UNCHANGED <<windows, fn, arg, fields, pc, ret>>

\* lines 18-30, one iteration that extends the field
SplitPush ==
    /\ fn = "split_at_comma" /\ pc = "loop" /\ pos <= Len(arg)
    /\ ~IsTerminator(arg[pos], escaped)
    /\ item' = Append(item, arg[pos])
    /\ escaped' = NextEscaped(arg[pos], escaped)
    /\ pos' = pos + 1
    /\ UNCHANGED <<windows, fn, arg, fields, pc, items, ret>>

\* lines 32-36
SplitReturn ==
    /\ fn = "split_at_comma" /\ pc = "loop" /\ pos > Len(arg)
    /\ LET out == IF PushTail(item) THEN Append(items, UnescapeItem(item))
                  ELSE items
       IN  /\ items' = out
           /\ ret' = [kind |-> "vec", val |-> out]
    /\ pc' = "done"
    /\ UNCHANGED <<windows, fn, arg, fields, pos, escaped, item>>

----------------------------------------------------------------------------
(* escape_filename *)

\* [[:ascii:]] is \x00-\x7F
IsAscii(c) == c <= 127

\* the mutated class exempts the other platform's separators
ExemptCharsSwapped(win) ==
    (48 .. 57) \cup (97 .. 122) \cup (65 .. 90) \cup {Dot, Underscore, Hyphen}
        \cup (IF win THEN {Slash} ELSE {Colon, Backslash})

\* lines 44 and 47: the chars listed in the negated class
\*   windows: [^0-9a-zA-Z._:\\-]     otherwise: [^0-9a-zA-Z._/-]
ExemptChars(win) ==
    (48 .. 57) \cup (97 .. 122) \cup (65 .. 90) \cup {Dot, Underscore, Hyphen}
        \cup (IF win THEN {Colon, Backslash} ELSE {Slash})

\* SPECIAL_CHARS: [[:ascii:]&&[^...]]
IsSpecialChar(c, win) == IsAscii(c) /\ c \notin ExemptChars(win)

\* the mutated replacement doubles the match instead of prefixing a backslash
ExpandDoubled(c) == <<c, c>>

\* line 50: the replacement r"\$0", a backslash followed by the whole match
ExpandReplacement(c) == <<Backslash, c>>

\* Regex::replace_all: every match (one char each) is replaced, the text
\* between the matches is copied
RECURSIVE ReplaceAllSpecial(_, _)
ReplaceAllSpecial(s, win) ==
    IF s = <<>> THEN <<>>
    ELSE (IF IsSpecialChar(Head(s), win) THEN ExpandReplacement(Head(s))
          ELSE <<Head(s)>>) \o ReplaceAllSpecial(Tail(s), win)

\* lines 40-51
EscapeFilename ==
    /\ fn = "escape_filename" /\ pc = "call"
    /\ ret' = [kind |-> "str", val |-> ReplaceAllSpecial(arg, windows)]
    /\ pc' = "done"
    /\ UNCHANGED <<windows, fn, arg, fields, pos, escaped, item, items>>

----------------------------------------------------------------------------
(* decode_uri *)

\* the UTF-8 encoding of one char (str::as_bytes)
Utf8Encode(c) ==
    IF c < 128 THEN <<c>>
    ELSE IF c < 2048 THEN <<192 + (c \div 64), 128 + (c % 64)>>
    ELSE IF c < 65536
         THEN <<224 + (c \div 4096), 128 + ((c \div 64) % 64), 128 + (c % 64)>>
    ELSE <<240 + (c \div 262144), 128 + ((c \div 4096) % 64),
           128 + ((c \div 64) % 64), 128 + (c % 64)>>

RECURSIVE AsBytes(_)
AsBytes(s) == IF s = <<>> THEN <<>> ELSE Utf8Encode(Head(s)) \o AsBytes(Tail(s))

IsContinuation(b) == b \in 128 .. 191

\* line 59: "file:///"
FilePrefix == <<102, 105, 108, 101, 58, 47, 47, 47>>

\* str::split_at(8) panics when 8 is past the end or inside a char
SplitAtPanics(bytes) ==
    \/ Len(bytes) < 8
    \/ Len(bytes) > 8 /\ IsContinuation(bytes[9])

\* char::to_digit(16), -1 for None
HexVal(b) ==
    IF b \in 48 .. 57 THEN b - 48
    ELSE IF b \in 65 .. 70 THEN b - 55
    ELSE IF b \in 97 .. 102 THEN b - 87
    ELSE 0 - 1

\* percent_decode: '%' and two hex digits give one byte, every other byte
\* (a '%' that starts no escape too) is copied
RECURSIVE PercentDecodeFrom(_, _)
PercentDecodeFrom(b, i) ==
    IF i > Len(b) THEN <<>>
    ELSE IF b[i] = Percent /\ i + 2 <= Len(b)
            /\ HexVal(b[i + 1]) >= 0 /\ HexVal(b[i + 2]) >= 0
         THEN <<HexVal(b[i + 1]) * 16 + HexVal(b[i + 2])>>
                  \o PercentDecodeFrom(b, i + 3)
    ELSE <<b[i]>> \o PercentDecodeFrom(b, i + 1)

PercentDecode(b) == PercentDecodeFrom(b, 1)

\* the scalar whose encoding starts at b[i]: its length in bytes and its
\* value, length 0 when no well-formed encoding starts there
ScalarAt(b, i) ==
    LET n  == Len(b)
        b0 == b[i]
        Cont(j) == j <= n /\ IsContinuation(b[j])
        Low(j)  == b[j] - 128
        Second3 == IF b0 = 224 THEN 160 .. 191
                   ELSE IF b0 = 237 THEN 128 .. 159 ELSE 128 .. 191
        Second4 == IF b0 = 240 THEN 144 .. 191
                   ELSE IF b0 = 244 THEN 128 .. 143 ELSE 128 .. 191
    IN  IF b0 < 128 THEN [len |-> 1, cp |-> b0]
        ELSE IF b0 \in 194 .. 223 /\ Cont(i + 1)
             THEN [len |-> 2, cp |-> (b0 - 192) * 64 + Low(i + 1)]
        ELSE IF b0 \in 224 .. 239 /\ i + 2 <= n /\ b[i + 1] \in Second3
                /\ Cont(i + 2)
             THEN [len |-> 3,
                   cp |-> (b0 - 224) * 4096 + Low(i + 1) * 64 + Low(i + 2)]
        ELSE IF b0 \in 240 .. 244 /\ i + 3 <= n /\ b[i + 1] \in Second4
                /\ Cont(i + 2) /\ Cont(i + 3)
             THEN [len |-> 4,
                   cp |-> (b0 - 240) * 262144 + Low(i + 1) * 4096
                              + Low(i + 2) * 64 + Low(i + 3)]
        ELSE [len |-> 0, cp |-> 0]

RECURSIVE FromUtf8From(_, _)
FromUtf8From(b, i) ==
    IF i > Len(b) THEN [ok |-> TRUE, text |-> <<>>]
    ELSE LET sc == ScalarAt(b, i)
         IN  IF sc.len = 0 THEN [ok |-> FALSE, text |-> <<>>]
             ELSE LET more == FromUtf8From(b, i + sc.len)
                  IN  [ok |-> more.ok,
                       text |-> IF more.ok THEN <<sc.cp>> \o more.text
                                ELSE <<>>]

\* the mutated conversion is lossy: an ill-formed byte becomes U+FFFD
RECURSIVE FromUtf8LossyFrom(_, _)
FromUtf8LossyFrom(b, i) ==
    IF i > Len(b) THEN <<>>
    ELSE LET sc == ScalarAt(b, i)
         IN  IF sc.len = 0 THEN <<65533>> \o FromUtf8LossyFrom(b, i + 1)
             ELSE <<sc.cp>> \o FromUtf8LossyFrom(b, i + sc.len)

DecodeUtf8Lossy(b) == [ok |-> TRUE, text |-> FromUtf8LossyFrom(b, 1)]

\* line 62: decode_utf8(), Err when the bytes are not well-formed UTF-8
DecodeUtf8(b) == FromUtf8From(b, 1)

\* line 67: SLASH.replace_all(&*path, r"\")
ReplaceSlashes(s) ==
    [i \in 1 .. Len(s) |-> IF s[i] = Slash THEN Backslash ELSE s[i]]

\* the mutated path substitutes in the encoded text and decodes afterwards
NativePathSubstituteFirst(rest, win) ==
    LET text == DecodeUtf8(PercentDecode(
                    IF win THEN ReplaceSlashes(rest) ELSE rest))
    IN  IF ~text.ok THEN [kind |-> "none", val |-> <<>>]
        ELSE IF win THEN [kind |-> "some", val |-> text.text]
        ELSE [kind |-> "some", val |-> <<Slash>> \o text.text]

\* lines 62-70: rest is the bytes after the prefix
NativePath(rest, win) ==
    LET text == DecodeUtf8(PercentDecode(rest))
    IN  IF ~text.ok THEN [kind |-> "none", val |-> <<>>]
        ELSE IF win THEN [kind |-> "some", val |-> ReplaceSlashes(text.text)]
        ELSE [kind |-> "some", val |-> <<Slash>> \o text.text]

\* lines 57-71
DecodeUriResult(uri, win) ==
    LET bytes == AsBytes(uri)
    IN  IF SplitAtPanics(bytes) THEN [kind |-> "panic", val |-> <<>>]
        ELSE IF SubSeq(bytes, 1, 8) # FilePrefix
             THEN [kind |-> "none", val |-> <<>>]
        ELSE NativePath(SubSeq(bytes, 9, Len(bytes)), win)

DecodeUri ==
    /\ fn = "decode_uri" /\ pc = "call"
    /\ ret' = DecodeUriResult(arg, windows)
    /\ pc' = "done"
    /\ UNCHANGED <<windows, fn, arg, fields, pos, escaped, item, items>>

----------------------------------------------------------------------------
(* Inputs *)

SplitAlphabet == {ChA, ChB, Comma, Backslash}

\* the inputs of the unit test, lines 88 and 93
TestSources == { <<ChA, Comma, ChB>>,
                 <<ChA, Comma, ChB, Backslash, Comma, 99>> }

Sources == SeqsUpTo(SplitAlphabet, MaxSourceLen) \cup TestSources

\* fields without comma or backslash, and lists of them
PlainFields == SeqsUpTo({ChA, ChB}, MaxFieldLen)
FieldLists  == SeqsUpTo(PlainFields, MaxFields)

\* [T]::join(","): the fields with one comma between neighbours
RECURSIVE Join(_)
Join(l) ==
    IF l = <<>> THEN <<>>
    ELSE IF Len(l) = 1 THEN l[1]
    ELSE l[1] \o <<Comma>> \o Join(Tail(l))

\* filenames: exempt chars, separators of both platforms, a space, the last
\* ASCII char, the first non-ASCII char and U+00E9
NameAlphabet == {ChA, Dot, Slash, Colon, Backslash, 32, 127, 128, 233}

\* "a b.txt" and one string of the bounds of the exempt ranges
NameExample  == <<97, 32, 98, 46, 116, 120, 116>>
ExemptExample == <<45, 95, 46, 48, 57, 65, 90, 97, 122>>

Filenames == SeqsUpTo(NameAlphabet, MaxNameLen) \cup {NameExample, ExemptExample}

\* URIs: a prefix followed by up to MaxTokens pieces
\*   file:///  file://  http:///  File:///  and none
UriPrefixes == { FilePrefix,
                 <<102, 105, 108, 101, 58, 47, 47>>,
                 <<104, 116, 116, 112, 58, 47, 47, 47>>,
                 <<70, 105, 108, 101, 58, 47, 47, 47>>,
                 <<>> }

\*   /  a  %  %2F  %20  %c3  %A9  %4  U+00E9
UriTokens == { <<Slash>>, <<ChA>>, <<Percent>>, <<37, 50, 70>>, <<37, 50, 48>>,
               <<37, 99, 51>>, <<37, 65, 57>>, <<37, 52>>, <<233>> }

\* the URIs of the doc comment (lines 55, 56) and two more
UriUnix    == <<102, 105, 108, 101, 58, 47, 47, 47, 112, 97, 116, 104, 47, 116,
                111, 47, 97, 37, 50, 48, 102, 105, 108, 101, 46, 101, 120, 116>>
UriWindows == <<102, 105, 108, 101, 58, 47, 47, 47, 67, 58, 47, 112, 97, 116,
                104, 47, 116, 111, 47, 97, 37, 50, 48, 102, 105, 108, 101, 46,
                101, 120, 116>>
UriTmp     == <<102, 105, 108, 101, 58, 47, 47, 47, 116, 109, 112, 47, 97, 37,
                50, 48, 102, 105, 108, 101, 46, 101, 120, 116>>
UriHttp    == <<104, 116, 116, 112, 58, 47, 47, 101, 120, 97, 109, 112, 108,
                101, 46, 99, 111, 109>>

Uris == {p \o Concat(ts) : p \in UriPrefixes, ts \in SeqsUpTo(UriTokens, MaxTokens)}
            \cup {UriUnix, UriWindows, UriTmp, UriHttp}

NotJoined == [joined |-> FALSE, list |-> <<>>]

Init ==
    /\ windows \in BOOLEAN
    /\ pc = "call"
    /\ pos = 0 /\ escaped = FALSE /\ item = <<>> /\ items = <<>>
    /\ ret = [kind |-> "pending", val |-> <<>>]
    /\ \/ /\ fn = "split_at_comma"
          /\ \/ arg \in Sources /\ fields = NotJoined
             \/ \E l \in FieldLists :
                    /\ fields = [joined |-> TRUE, list |-> l]
                    /\ arg = Join(l)
       \/ fn = "escape_filename" /\ arg \in Filenames /\ fields = NotJoined
       \/ fn = "decode_uri" /\ arg \in Uris /\ fields = NotJoined

Next ==
    \/ SplitEnter
    \/ SplitTerminate
    \/ SplitPush
    \/ SplitReturn
    \/ EscapeFilename
    \/ DecodeUri

Spec == Init /\ [][Next]_vars

----------------------------------------------------------------------------
(* Vocabulary of the properties *)

Done(f) == fn = f /\ pc = "done"

\* the chars of s at the positions in P, in order
SubseqAt(s, P) ==
    LET F[i \in 0 .. Len(s)] ==
            IF i = 0 THEN <<>>
            ELSE IF i \in P THEN Append(F[i - 1], s[i]) ELSE F[i - 1]
    IN  F[Len(s)]

CountOf(s, c) == Cardinality({i \in 1 .. Len(s) : s[i] = c})

\* a comma is escaped when the char right before it is a backslash
EscapedCommas(s) ==
    {i \in 1 .. Len(s) : s[i] = Comma /\ i > 1 /\ s[i - 1] = Backslash}

UnescapedCommas(s) ==
    {i \in 1 .. Len(s) : s[i] = Comma /\ (i = 1 \/ s[i - 1] # Backslash)}

\* the backslashes that stand right before a comma
EscapingBackslashes(s) ==
    {i \in 1 .. Len(s) : s[i] = Backslash /\ i < Len(s) /\ s[i + 1] = Comma}

\* p with every backslash-comma pair reduced to the comma
WithoutEscapes(p) == SubseqAt(p, (1 .. Len(p)) \ EscapingBackslashes(p))

\* the j-th unescaped comma of s, 0 for j = 0
NthCut(s, j) ==
    IF j = 0 THEN 0
    ELSE CHOOSE c \in UnescapedCommas(s) :
             Cardinality({d \in UnescapedCommas(s) : d < c}) = j - 1

\* the text after the last unescaped comma
TailPiece(s) ==
    SubSeq(s, NthCut(s, Cardinality(UnescapedCommas(s))) + 1, Len(s))

\* the pieces that an unescaped comma ends, unescaped, and then the tail
\* piece when it is not empty
CutFields(s) ==
    LET k == Cardinality(UnescapedCommas(s))
    IN  [j \in 1 .. k |->
            WithoutEscapes(SubSeq(s, NthCut(s, j - 1) + 1, NthCut(s, j) - 1))]
        \o (IF TailPiece(s) = <<>> THEN <<>>
            ELSE <<WithoutEscapes(TailPiece(s))>>)

StartsWithFilePrefix(s) == Len(s) >= 8 /\ SubSeq(s, 1, 8) = FilePrefix

\* the chars of a uri after its first 8
UriRest(s) == SubSeq(s, 9, Len(s))

IsHexDigit(c) == c \in (48 .. 57) \cup (65 .. 70) \cup (97 .. 102)

EscapeAt(s, i) ==
    s[i] = Percent /\ i + 2 <= Len(s) /\ IsHexDigit(s[i + 1]) /\ IsHexDigit(s[i + 2])

\* some '%' is not followed by two hexadecimal digits
HasMalformedPercent(s) == \E i \in 1 .. Len(s) : s[i] = Percent /\ ~EscapeAt(s, i)

HasEscape(s) == \E i \in 1 .. Len(s) : EscapeAt(s, i)

\* Unicode's table of well-formed UTF-8 byte sequences: the length of the
\* one that starts at b[i], 0 when none does
WellFormedLen(b, i) ==
    LET In(j, lo, hi) == j <= Len(b) /\ b[j] >= lo /\ b[j] <= hi
    IN  IF In(i, 0, 127) THEN 1
        ELSE IF In(i, 194, 223) /\ In(i + 1, 128, 191) THEN 2
        ELSE IF \/ In(i, 224, 224) /\ In(i + 1, 160, 191) /\ In(i + 2, 128, 191)
                \/ In(i, 225, 236) /\ In(i + 1, 128, 191) /\ In(i + 2, 128, 191)
                \/ In(i, 237, 237) /\ In(i + 1, 128, 159) /\ In(i + 2, 128, 191)
                \/ In(i, 238, 239) /\ In(i + 1, 128, 191) /\ In(i + 2, 128, 191)
             THEN 3
        ELSE IF \/ In(i, 240, 240) /\ In(i + 1, 144, 191) /\ In(i + 2, 128, 191)
                       /\ In(i + 3, 128, 191)
                \/ In(i, 241, 243) /\ In(i + 1, 128, 191) /\ In(i + 2, 128, 191)
                       /\ In(i + 3, 128, 191)
                \/ In(i, 244, 244) /\ In(i + 1, 128, 143) /\ In(i + 2, 128, 191)
                       /\ In(i + 3, 128, 191)
             THEN 4
        ELSE 0

\* b is a concatenation of well-formed sequences
WellFormedUtf8(b) ==
    LET Starts[i \in 1 .. Len(b) + 1] ==
            \/ i = 1
            \/ \E j \in 1 .. i - 1 :
                   Starts[j] /\ WellFormedLen(b, j) > 0 /\ j + WellFormedLen(b, j) = i
    IN  Starts[Len(b) + 1]

\* the exempt set as the documentation of escape_filename states it
DocumentedExempt(win) ==
    {c \in 0 .. 127 :
        \/ c >= 48 /\ c <= 57
        \/ c >= 97 /\ c <= 122
        \/ c >= 65 /\ c <= 90
        \/ c \in {Dot, Underscore, Hyphen}
        \/ ~win /\ c = Slash
        \/ win /\ c \in {Colon, Backslash}}

NeedsEscape(c, win) == c <= 127 /\ c \notin DocumentedExempt(win)

\* a backslash-escaped text read left to right: a backslash and the char
\* after it stand for that char
RECURSIVE ReadPairsFrom(_, _)
ReadPairsFrom(s, i) ==
    IF i > Len(s) THEN <<>>
    ELSE IF s[i] = Backslash /\ i < Len(s)
         THEN <<s[i + 1]>> \o ReadPairsFrom(s, i + 2)
         ELSE <<s[i]>> \o ReadPairsFrom(s, i + 1)

\* the text without the char right before each non-exempt ASCII char
DropBeforeSpecial(s, win) ==
    SubseqAt(s, {i \in 1 .. Len(s) :
                    ~(i < Len(s) /\ NeedsEscape(s[i + 1], win))})

Recovered(s, win) == IF win THEN DropBeforeSpecial(s, win) ELSE ReadPairsFrom(s, 1)

----------------------------------------------------------------------------
(* Properties *)

\* C1: decode_uri returns none, without aborting, for every input whose first
\* 8 characters are not exactly file:/// (inputs shorter than 8 characters
\* included).
C1_NonFileUriGivesNone ==
    Done("decode_uri") /\ ~StartsWithFilePrefix(arg) => ret.kind = "none"

\* C2: split_at_comma returns, in input order, the pieces cut at each comma
\* that no backslash immediately precedes, every backslash-comma pair of a
\* piece reduced to a comma; an empty piece that an unescaped comma follows
\* is an empty field ("a,b" gives a, b and "a,b\,c" gives a, "b,c").
C2_CutsAtUnescapedCommas ==
    Done("split_at_comma") =>
        /\ ret.val = CutFields(arg)
        /\ \A j \in 1 .. Cardinality(UnescapedCommas(arg)) :
               ret.val[j] = WithoutEscapes(
                   SubSeq(arg, NthCut(arg, j - 1) + 1, NthCut(arg, j) - 1))
        /\ arg = <<ChA, Comma, ChB>> => ret.val = <<<<ChA>>, <<ChB>>>>
        /\ arg = <<ChA, Comma, ChB, Backslash, Comma, 99>>
               => ret.val = <<<<ChA>>, <<ChB, Comma, 99>>>>

C2_Witness ==
    /\ Done("split_at_comma")
    /\ arg = <<ChA, Comma, ChB, Backslash, Comma, 99>>
    /\ ret.val = <<<<ChA>>, <<ChB, Comma, 99>>>>

\* C3 as stated: joining any list of fields free of commas and backslashes
\* with "," and splitting the result returns the list.
C3_RoundTrip ==
    Done("split_at_comma") /\ fields.joined => ret.val = fields.list

\* C3 as amended: the round trip returns the list when the list is empty or
\* its last field is not empty.
C3_RoundTripNonEmptyLast ==
    Done("split_at_comma") /\ fields.joined
        /\ (fields.list = <<>> \/ fields.list[Len(fields.list)] # <<>>)
        => ret.val = fields.list

C3_Witness ==
    /\ Done("split_at_comma") /\ fields.joined
    /\ Len(fields.list) = 3
    /\ fields.list[1] = <<>> /\ fields.list[2] = <<>> /\ fields.list[3] # <<>>
    /\ ret.val = fields.list

\* C4: escape_filename returns the input with exactly one backslash inserted
\* immediately before each ASCII char outside the platform's exempt set and
\* nothing else changed; the output is as much longer than the input as
\* there are such chars ("a b.txt" becomes "a\ b.txt").
C4_OneBackslashPerSpecial ==
    Done("escape_filename") =>
        LET special == {i \in 1 .. Len(arg) : NeedsEscape(arg[i], windows)}
            At(i)   == i + Cardinality({j \in special : j <= i})
        IN  /\ Len(ret.val) = Len(arg) + Cardinality(special)
            /\ \A i \in 1 .. Len(arg) :
                   /\ ret.val[At(i)] = arg[i]
                   /\ i \in special => ret.val[At(i) - 1] = Backslash
            /\ special = {} => ret.val = arg
            /\ arg = NameExample
                   => ret.val = <<97, Backslash, 32, 98, 46, 116, 120, 116>>

C4_Witness ==
    /\ Done("escape_filename")
    /\ arg = NameExample
    /\ ret.val = <<97, Backslash, 32, 98, 46, 116, 120, 116>>

\* C5 as stated: for an input that starts with file:///, decode_uri returns
\* none whenever the remainder has a '%' that two hexadecimal digits do not
\* follow or its percent-decoded bytes are not valid UTF-8.
C5_MalformedPercentGivesNone ==
    Done("decode_uri") /\ StartsWithFilePrefix(arg)
        /\ (\/ HasMalformedPercent(UriRest(arg))
            \/ ~WellFormedUtf8(PercentDecode(AsBytes(UriRest(arg)))))
        => ret.kind = "none"

\* C5 as amended: for an input that starts with file:///, decode_uri returns
\* none exactly when the percent-decoded bytes are not valid UTF-8, and a
\* path otherwise; percent-decoding never fails, a '%' that two hexadecimal
\* digits do not follow is copied unchanged.
C5_NoneIffInvalidUtf8 ==
    Done("decode_uri") /\ StartsWithFilePrefix(arg) =>
        LET rest == UriRest(arg)
        IN  /\ ret.kind \in {"none", "some"}
            /\ ret.kind = "none" <=> ~WellFormedUtf8(PercentDecode(AsBytes(rest)))
            /\ ~HasEscape(rest) =>
                   /\ ret.kind = "some"
                   /\ ret.val =
                          IF windows
                          THEN [i \in 1 .. Len(rest) |->
                                   IF rest[i] = Slash THEN Backslash ELSE rest[i]]
                          ELSE <<Slash>> \o rest

C5_Witness ==
    /\ Done("decode_uri") /\ StartsWithFilePrefix(arg)
    /\ HasMalformedPercent(UriRest(arg)) /\ HasEscape(UriRest(arg))
    /\ ret.kind = "some"

\* C6: when decode_uri succeeds the path is built by decoding first and
\* substituting afterwards: off Windows a single "/" and the percent-decoded
\* remainder unchanged; on Windows the percent-decoded remainder with every
\* "/" (one that came from %2F too) replaced by "\", no separator in front.
C6_DecodeThenSubstitute ==
    Done("decode_uri") /\ ret.kind = "some" =>
        LET decoded == PercentDecode(AsBytes(UriRest(arg)))
        IN  /\ ~windows =>
                /\ ret.val[1] = Slash
                /\ AsBytes(Tail(ret.val)) = decoded
            /\ windows =>
                /\ AsBytes(ret.val) =
                       [i \in 1 .. Len(decoded) |->
                           IF decoded[i] = Slash THEN Backslash ELSE decoded[i]]
                /\ CountOf(ret.val, Slash) = 0
            /\ arg = UriTmp /\ ~windows =>
                   ret.val = <<47, 116, 109, 112, 47, 97, 32, 102, 105, 108,
                               101, 46, 101, 120, 116>>
            /\ arg = UriWindows /\ windows =>
                   ret.val = <<67, 58, 92, 112, 97, 116, 104, 92, 116, 111,
                               92, 97, 32, 102, 105, 108, 101, 46, 101, 120,
                               116>>

C6_Witness ==
    /\ Done("decode_uri") /\ windows /\ ret.kind = "some"
    /\ \E i \in 1 .. Len(arg) - 2 : SubSeq(arg, i, i + 2) = <<37, 50, 70>>
    /\ CountOf(ret.val, Backslash) > 0

\* C7: split_at_comma emits the text after the last unescaped comma (the
\* whole input when there is none) as a final field if and only if that
\* text is not empty: "" gives no field, "a," gives the one field a.
C7_TailFieldIffNonEmpty ==
    Done("split_at_comma") =>
        LET k == Cardinality(UnescapedCommas(arg))
        IN  /\ Len(ret.val) = k + (IF TailPiece(arg) = <<>> THEN 0 ELSE 1)
            /\ TailPiece(arg) # <<>>
                   => ret.val[Len(ret.val)] = WithoutEscapes(TailPiece(arg))
            /\ arg = <<>> => ret.val = <<>>
            /\ arg = <<ChA, Comma>> => ret.val = <<<<ChA>>>>

C7_Witness ==
    /\ Done("split_at_comma")
    /\ arg = <<ChA, Comma>>
    /\ ret.val = <<<<ChA>>>>

\* C8: the escape decision of split_at_comma looks back exactly one char:
\* after any run of backslashes a comma is escaped, never a terminator, so
\* backslash, backslash, comma is the one field backslash, comma; a
\* backslash that no comma follows stays in its field with the next char.
C8_OneCharLookback ==
    /\ fn = "split_at_comma" /\ pc = "loop" /\ pos > 1
           => escaped = (arg[pos - 1] = Backslash)
    /\ Done("split_at_comma") =>
           /\ Concat(ret.val) =
                  SubseqAt(arg, (1 .. Len(arg))
                      \ (UnescapedCommas(arg) \cup EscapingBackslashes(arg)))
           /\ Len(ret.val) <= Cardinality(UnescapedCommas(arg)) + 1
           /\ arg = <<Backslash, Backslash, Comma>>
                  => ret.val = <<<<Backslash, Comma>>>>
           /\ arg = <<Backslash, ChA>> => ret.val = <<<<Backslash, ChA>>>>

C8_Witness ==
    /\ Done("split_at_comma")
    /\ arg = <<Backslash, Backslash, Comma>>
    /\ ret.val = <<<<Backslash, Comma>>>>

\* C9: an unescaped comma never enters the accumulator, so a backslash
\* stands right before every comma of it; the returned fields hold as many
\* commas as the input has escaped commas, and their total length is the
\* input length minus the unescaped commas minus the escaped commas.
C9_CommaConservation ==
    /\ fn = "split_at_comma" /\ pc = "loop" =>
           \A i \in 1 .. Len(item) :
               item[i] = Comma => i > 1 /\ item[i - 1] = Backslash
    /\ Done("split_at_comma") =>
           /\ CountOf(Concat(ret.val), Comma) = Cardinality(EscapedCommas(arg))
           /\ Len(Concat(ret.val)) =
                  Len(arg) - Cardinality(UnescapedCommas(arg))
                           - Cardinality(EscapedCommas(arg))

C9_Witness ==
    /\ Done("split_at_comma")
    /\ Cardinality(EscapedCommas(arg)) = 2
    /\ Cardinality(UnescapedCommas(arg)) = 1
    /\ CountOf(Concat(ret.val), Comma) = 2

\* C10: escape_filename is injective on each platform: the input is what
\* remains of the output once the inserted backslashes are removed (off
\* Windows by reading plain chars and backslash-char pairs left to right, on
\* Windows by removing the char right before each non-exempt ASCII char).
C10_InputRecoverable ==
    Done("escape_filename") => Recovered(ret.val, windows) = arg

C10_Witness ==
    /\ Done("escape_filename") /\ windows
    /\ Len(arg) = 3 /\ arg[1] = Backslash /\ arg[2] = 32 /\ arg[3] = Backslash
    /\ ret.val = <<Backslash, Backslash, 32, Backslash>>

====
